---- MODULE Spec2Model ----
(***************************************************************************)
(* Self-healing locator engine: fingerprint capture, fingerprint store,    *)
(* element matcher and healing orchestrator, modelled over a small family  *)
(* of documents.                                                           *)
(*                                                                         *)
(* Numbers the code keeps as floating point (confidences, similarity       *)
(* scores) are exact rationals [num, den] in lowest terms here.            *)
(* Strings the code only compares for equality are TLA+ strings, with ""   *)
(* for an absent attribute (the code folds "" to undefined with `|| `);    *)
(* text content, which the code measures and edits, is a sequence of       *)
(* characters.  Selector strings are records that keep the parts the       *)
(* template strings of the code interpolate.                               *)
(***************************************************************************)
EXTENDS Integers, Sequences, FiniteSets, TLC

VARIABLES
    doc,            \* index of the live document in Docs
    config,         \* SelfHealingEngine.config: [enabled, confidenceThreshold]
    fingerprints,   \* LocatorStore.fingerprints: name -> fingerprint or NoFingerprint
    healingEvents,  \* LocatorStore.healingEvents
    clock,          \* the clock read by `new Date()`; one tick per command
    last            \* what the last command did and returned

vars == <<doc, config, fingerprints, healingEvents, clock, last>>

----------------------------------------------------------------------------
(* Bounds *)

MaxClock == 3

----------------------------------------------------------------------------
(* Exact arithmetic *)

Abs(x) == IF x < 0 THEN -x ELSE x

Min2(a, b) == IF a < b THEN a ELSE b

Max2(a, b) == IF a > b THEN a ELSE b

RECURSIVE GCD(_, _)
GCD(a, b) == IF b = 0 THEN a ELSE GCD(b, a % b)

\* the rational n/d (d > 0) in lowest terms
Rat(n, d) ==
    LET g == GCD(Abs(n), d)
    IN  IF n = 0 THEN [num |-> 0, den |-> 1] ELSE [num |-> n \div g, den |-> d \div g]

RatAdd(a, b) == Rat(a.num * b.den + b.num * a.den, a.den * b.den)

RatMul(a, b) == Rat(a.num * b.num, a.den * b.den)

\* a / b for b > 0
RatDiv(a, b) == Rat(a.num * b.den, a.den * b.num)

RatLt(a, b) == a.num * b.den < b.num * a.den

RatGe(a, b) == ~RatLt(a, b)

RatGt(a, b) == RatLt(b, a)

Zero == Rat(0, 1)

One == Rat(1, 1)

----------------------------------------------------------------------------
(* Selectors.  kind "id" is `#v`, "attr" is `[a="v"]`, "class" is `.v`,   *)
(* "tag" is `t`, "contains" is `t:contains("x")` (jQuery only), "css" is  *)
(* the contextual selector `<parent> > t[type="y"]` whose parent part is  *)
(* `#p`, `.p` or missing.                                                 *)

SelId(v) == [kind |-> "id", v |-> v]

SelAttr(a, v) == [kind |-> "attr", a |-> a, v |-> v]

SelClass(v) == [kind |-> "class", v |-> v]

SelTag(t) == [kind |-> "tag", t |-> t]

SelContains(t, x) == [kind |-> "contains", t |-> t, x |-> x]

SelCss(pk, pv, t, ty) == [kind |-> "css", pk |-> pk, pv |-> pv, t |-> t, ty |-> ty]

----------------------------------------------------------------------------
(* Elements and documents.  An element carries the properties the code    *)
(* reads: tagName, textContent (trimmed), className (its space-separated  *)
(* tokens), id, the attributes name, placeholder, aria-label, role and    *)
(* type, its data-* attributes, its bounding rectangle and its parent      *)
(* element's tag, class tokens and id.  eid is the node's identity and is  *)
(* visible to no selector.                                                 *)

NoData == [k \in {} |-> ""]

TestId(v) == [k \in {"data-testid"} |-> v]

Rect(x, y, w, h) == [x |-> x, y |-> y, width |-> w, height |-> h]

\* an ElementAttributes without position
NoPosition == [x |-> "undefined"]

Parent(t, c, i) == [tagName |-> t, className |-> c, id |-> i]

Form == Parent("form", <<>>, "login-form")

Box == Parent("div", <<"box", "wide">>, "")

Body == Parent("body", <<>>, "")

Blank ==
    [eid |-> 0, tagName |-> "div", text |-> <<>>, className |-> <<>>, id |-> "",
     name |-> "", placeholder |-> "", ariaLabel |-> "", role |-> "", type |-> "",
     data |-> NoData, rect |-> Rect(0, 300, 100, 20), parent |-> Body]

Username ==
    [Blank EXCEPT !.eid = 1, !.tagName = "input", !.id = "username",
                  !.name = "username", !.placeholder = "Enter username",
                  !.ariaLabel = "Enter your username", !.type = "text",
                  !.className = <<"field">>, !.data = TestId("username-input"),
                  !.rect = Rect(0, 0, 200, 30), !.parent = Form]

Search ==
    [Blank EXCEPT !.eid = 2, !.tagName = "input", !.id = "search-input",
                  !.placeholder = "Search", !.type = "text",
                  !.className = <<"field">>,
                  !.rect = Rect(0, 100, 200, 30), !.parent = Box]

Login ==
    [Blank EXCEPT !.eid = 3, !.tagName = "button", !.id = "login-btn",
                  !.text = <<"L", "o", "g">>, !.type = "submit",
                  !.className = <<"btn", "primary">>,
                  !.data = TestId("login-button"),
                  !.rect = Rect(0, 200, 80, 30), !.parent = Form]

Bare == [Blank EXCEPT !.eid = 4]

\* the page as first served
Doc1 == <<Username, Search, Login, Bare>>

\* the ids were removed, the username field moved down and its test id is no
\* longer unique
Doc2 ==
    <<[Search EXCEPT !.data = TestId("username-input")],
      [Username EXCEPT !.id = "", !.rect = Rect(0, 40, 200, 30)],
      [Login EXCEPT !.id = ""], Bare>>

\* ids, test ids, names and labels are gone and the form was restructured
Doc3 ==
    <<[Username EXCEPT !.id = "", !.data = NoData, !.ariaLabel = "", !.name = "",
                       !.placeholder = "User", !.className = <<"f1", "x">>,
                       !.parent = Box],
      [Search EXCEPT !.id = "", !.placeholder = "Find", !.className = <<"f2", "x">>],
      [Login EXCEPT !.id = "", !.data = NoData, !.parent = Box],
      [Login EXCEPT !.eid = 5, !.id = "", !.data = NoData, !.parent = Box,
                    !.text = <<"L", "o", "g", "o", "u", "t">>,
                    !.rect = Rect(0, 240, 80, 30)],
      Bare>>

Docs == <<Doc1, Doc2, Doc3>>

Null == "null"

\* element.getAttribute(key) for a data-* key
getDataAttribute(e, key) == IF key \in DOMAIN e.data THEN e.data[key] ELSE Null

\* element.getAttribute(a) || ''
getAttribute(e, a) ==
    CASE a = "name" -> e.name
      [] a = "placeholder" -> e.placeholder
      [] a = "aria-label" -> e.ariaLabel
      [] a = "role" -> e.role
      [] a = "type" -> e.type
      [] OTHER -> IF a \in DOMAIN e.data THEN e.data[a] ELSE ""

SeqToSet(s) == {s[i] : i \in 1..Len(s)}

\* whether x occurs in y as a contiguous run
IsInfix(x, y) ==
    \E i \in 0..(Len(y) - Len(x)) : SubSeq(y, i + 1, i + Len(x)) = x

\* document.querySelectorAll rejects what is not CSS: the jQuery extension
\* :contains raises a SyntaxError
SelectorThrows(sel) == sel.kind = "contains"

\* whether element e matches selector sel (sel is valid CSS, or :contains
\* under jQuery)
SelectorMatches(e, sel) ==
    CASE sel.kind = "id" -> e.id # "" /\ e.id = sel.v
      [] sel.kind = "attr" -> getAttribute(e, sel.a) # "" /\ getAttribute(e, sel.a) = sel.v
      [] sel.kind = "class" -> sel.v \in SeqToSet(e.className)
      [] sel.kind = "tag" -> e.tagName = sel.t
      [] sel.kind = "contains" -> e.tagName = sel.t /\ IsInfix(sel.x, e.text)
      [] sel.kind = "css" ->
            /\ e.tagName = sel.t
            /\ sel.ty # "" => e.type = sel.ty
            /\ sel.pk = "id" => e.parent.id = sel.pv
            /\ sel.pk = "class" => sel.pv \in SeqToSet(e.parent.className)

\* the elements of document d that match sel, in document order
MatchingElements(d, sel) ==
    SelectSeq(Docs[d], LAMBDA e : SelectorMatches(e, sel))

\* document.querySelectorAll(sel): the matching elements, or a thrown SyntaxError
querySelectorAll(d, sel) ==
    IF SelectorThrows(sel)
    THEN [throws |-> TRUE, elements |-> <<>>]
    ELSE [throws |-> FALSE, elements |-> MatchingElements(d, sel)]

\* cy.get(sel): jQuery's selector engine, which also knows :contains
cyGet(d, sel) == MatchingElements(d, sel)

----------------------------------------------------------------------------
(* Fingerprint capture *)

TextCap == 100

TextLocatorMax == 50

Take(s, n) == SubSeq(s, 1, Min2(Len(s), n))

\* extractAttributes(element).  An absent field (undefined) is "", <<>> or
\* NoData.  innerText, title, href, src and value are captured by the code
\* and read by nothing; they are left out.
extractAttributes(element) ==
    [tagName |-> element.tagName,
     text |-> Take(element.text, TextCap),
     className |-> element.className,
     id |-> element.id,
     name |-> element.name,
     placeholder |-> element.placeholder,
     ariaLabel |-> element.ariaLabel,
     role |-> element.role,
     type |-> element.type,
     dataAttributes |-> element.data,
     position |-> element.rect,
     parentInfo |-> element.parent]

RECURSIVE EscapeQuotes(_)
\* text.replace(/"/g, '\\"')
EscapeQuotes(text) ==
    IF text = <<>> THEN <<>>
    ELSE (IF Head(text) = "\"" THEN <<"\\", "\"">> ELSE <<Head(text)>>)
         \o EscapeQuotes(Tail(text))

\* generateTextLocator(tagName, text): every branch of the switch builds
\* `${tagName}:contains("${safeText}")`
generateTextLocator(tagName, text) == SelContains(tagName, EscapeQuotes(text))

NoSelector == [kind |-> "none"]

\* generateContextualCss leaving out a tag name that nothing qualifies
generateContextualCss_NeedsQualifier(attributes) ==
    IF attributes.parentInfo.id # ""
    THEN SelCss("id", attributes.parentInfo.id, attributes.tagName, attributes.type)
    ELSE IF attributes.parentInfo.className # <<>>
            /\ attributes.parentInfo.className[1] # ""
    THEN SelCss("class", attributes.parentInfo.className[1], attributes.tagName,
                attributes.type)
    ELSE IF attributes.type # ""
    THEN SelCss("", "", attributes.tagName, attributes.type)
    ELSE NoSelector

\* generateContextualCss(element, attributes)
generateContextualCss(attributes) ==
    LET parentPart ==
            IF attributes.parentInfo.id # ""
            THEN <<"id", attributes.parentInfo.id>>
            ELSE IF attributes.parentInfo.className # <<>>
                    /\ attributes.parentInfo.className[1] # ""
                 THEN <<"class", attributes.parentInfo.className[1]>>
                 ELSE <<"", "">>
        hasElementSelector == attributes.tagName # "" \/ attributes.type # ""
    IN  IF hasElementSelector
        THEN SelCss(parentPart[1], parentPart[2], attributes.tagName, attributes.type)
        ELSE IF parentPart[1] # ""
             THEN SelCss(parentPart[1], parentPart[2], "", "")
             ELSE NoSelector

Strategy(t, v, p, cn, cd) ==
    [type |-> t, value |-> v, priority |-> p, confidence |-> Rat(cn, cd)]

RECURSIVE InsertByPriority(_, _)
InsertByPriority(sorted, x) ==
    IF sorted = <<>> THEN <<x>>
    ELSE IF x.priority < Head(sorted).priority
         THEN <<x>> \o sorted
         ELSE <<Head(sorted)>> \o InsertByPriority(Tail(sorted), x)

RECURSIVE SortByPriority(_)
\* locators.sort((a, b) => a.priority - b.priority): a stable sort
SortByPriority(locators) ==
    IF locators = <<>> THEN <<>>
    ELSE InsertByPriority(SortByPriority(SubSeq(locators, 1, Len(locators) - 1)),
                          locators[Len(locators)])

HasData(attributes, key) ==
    key \in DOMAIN attributes.dataAttributes /\ attributes.dataAttributes[key] # ""

\* the strategies generateAlternativeLocators pushes, in the order of its code
PushedLocators(element, attributes) ==
    LET If(c, x) == IF c THEN <<x>> ELSE <<>>
        css == generateContextualCss(attributes)
        locators ==
            If(HasData(attributes, "data-testid"),
               Strategy("data-testid",
                        SelAttr("data-testid", attributes.dataAttributes["data-testid"]),
                        1, 95, 100))
         \o If(HasData(attributes, "data-cy"),
               Strategy("data-cy",
                        SelAttr("data-cy", attributes.dataAttributes["data-cy"]),
                        2, 95, 100))
         \o If(attributes.id # "",
               Strategy("id", SelId(attributes.id), 3, 90, 100))
         \o If(attributes.ariaLabel # "",
               Strategy("aria-label", SelAttr("aria-label", attributes.ariaLabel),
                        4, 85, 100))
         \o If(attributes.name # "",
               Strategy("name", SelAttr("name", attributes.name), 5, 80, 100))
         \o If(attributes.placeholder # "",
               Strategy("placeholder", SelAttr("placeholder", attributes.placeholder),
                        6, 75, 100))
         \o If(attributes.role # "" /\ attributes.text # <<>>,
               Strategy("role", SelAttr("role", attributes.role), 7, 70, 100))
         \o If(attributes.text # <<>> /\ Len(attributes.text) < TextLocatorMax,
               Strategy("text", generateTextLocator(element.tagName, attributes.text),
                        8, 70, 100))
         \o If(Len(attributes.className) = 1,
               Strategy("class", SelClass(attributes.className[1]), 9, 50, 100))
         \o If(css # NoSelector, Strategy("css", css, 10, 60, 100))
    IN  locators

Reverse(s) == [i \in 1..Len(s) |-> s[Len(s) + 1 - i]]

\* generateAlternativeLocators sorting with the comparator turned round
generateAlternativeLocators_Descending(element, attributes) ==
    Reverse(SortByPriority(PushedLocators(element, attributes)))

\* generateAlternativeLocators emitting a class strategy for the first token of
\* a class name of several tokens too
generateAlternativeLocators_AnyClass(element, attributes) ==
    SortByPriority(PushedLocators(element, attributes)
                   \o (IF Len(attributes.className) > 1
                       THEN <<Strategy("class", SelClass(attributes.className[1]),
                                       9, 50, 100)>>
                       ELSE <<>>))

\* generateAlternativeLocators(element, attributes)
generateAlternativeLocators(element, attributes) ==
    SortByPriority(PushedLocators(element, attributes))

\* captureElementFingerprint(element, name, primaryLocator), at time now
captureElementFingerprint(element, name, primaryLocator, now) ==
    LET attributes == extractAttributes(element)
    IN  [name |-> name,
         primaryLocator |-> primaryLocator,
         alternativeLocators |-> generateAlternativeLocators(element, attributes),
         attributes |-> attributes,
         lastSeen |-> now,
         healCount |-> 0]

----------------------------------------------------------------------------
(* Element matcher *)

\* levenshteinDistance without the substitution: a differing character costs
\* a deletion and an insertion
levenshteinDistance_NoSubstitution(str1, str2) ==
    LET matrix[i \in 0..Len(str2), j \in 0..Len(str1)] ==
            IF i = 0 THEN j
            ELSE IF j = 0 THEN i
            ELSE IF str2[i] = str1[j] THEN matrix[i - 1, j - 1]
            ELSE Min2(matrix[i, j - 1] + 1, matrix[i - 1, j] + 1)
    IN  matrix[Len(str2), Len(str1)]

\* levenshteinDistance(str1, str2): the dynamic-programming matrix, row i for
\* the first i characters of str2 and column j for the first j of str1
levenshteinDistance(str1, str2) ==
    LET matrix[i \in 0..Len(str2), j \in 0..Len(str1)] ==
            IF i = 0 THEN j
            ELSE IF j = 0 THEN i
            ELSE IF str2[i] = str1[j] THEN matrix[i - 1, j - 1]
            ELSE Min2(matrix[i - 1, j - 1] + 1,
                      Min2(matrix[i, j - 1] + 1, matrix[i - 1, j] + 1))
    IN  matrix[Len(str2), Len(str1)]

\* stringSimilarity(str1, str2)
stringSimilarity(str1, str2) ==
    IF str1 = str2 THEN One
    ELSE IF str1 = <<>> \/ str2 = <<>> THEN Zero
    ELSE LET longer == IF Len(str1) > Len(str2) THEN str1 ELSE str2
             shorter == IF Len(str1) > Len(str2) THEN str2 ELSE str1
         IN  Rat(Len(longer) - levenshteinDistance(longer, shorter), Len(longer))

MaxDistance == 200

SizeTolerance == 50

\* Math.sqrt(dx^2 + dy^2), rounded down; the documents keep their elements in
\* one column, where it is exact
Hypot(dx, dy) ==
    IF dx = 0 THEN Abs(dy)
    ELSE IF dy = 0 THEN Abs(dx)
    ELSE CHOOSE r \in 0..(Abs(dx) + Abs(dy)) :
            r * r <= dx * dx + dy * dy /\ (r + 1) * (r + 1) > dx * dx + dy * dy

\* calculatePositionSimilarity(rect, target)
calculatePositionSimilarity(rect, target) ==
    LET distance == Hypot(rect.x - target.x, rect.y - target.y)
        sizeMatch ==
            IF Abs(rect.width - target.width) < SizeTolerance
               /\ Abs(rect.height - target.height) < SizeTolerance
            THEN Rat(1, 2) ELSE Zero
        positionMatch == Rat(Max2(0, MaxDistance - distance), 2 * MaxDistance)
    IN  RatAdd(positionMatch, sizeMatch)

\* the weights of calculateSimilarityScore, in hundredths
Weight(signal) ==
    CASE signal = "text" -> Rat(25, 100)
      [] signal = "ariaLabel" -> Rat(20, 100)
      [] signal = "dataAttributes" -> Rat(15, 100)
      [] signal = "placeholder" -> Rat(10, 100)
      [] signal = "name" -> Rat(10, 100)
      [] signal = "className" -> Rat(5, 100)
      [] signal = "position" -> Rat(10, 100)
      [] signal = "role" -> Rat(5, 100)

Signals ==
    <<"text", "ariaLabel", "dataAttributes", "placeholder", "name", "className",
      "position", "role">>

\* new Set(className.split(' ')): the empty class string splits to {""}
ClassSet(className) == IF className = <<>> THEN {""} ELSE SeqToSet(className)

\* whether the `if (target.x)` guard of a signal holds
SignalApplies(signal, target) ==
    CASE signal = "text" -> target.text # <<>>
      [] signal = "ariaLabel" -> target.ariaLabel # ""
      [] signal = "dataAttributes" -> DOMAIN target.dataAttributes # {}
      [] signal = "placeholder" -> target.placeholder # ""
      [] signal = "name" -> target.name # ""
      [] signal = "className" -> target.className # <<>>
      [] signal = "position" -> target.position # NoPosition
      [] signal = "role" -> target.role # ""

\* the comparison of an attribute with !== in place of ===
Exact_Inverted(a, b) == IF a # b THEN One ELSE Zero

\* elementValue === target.value ? 1 : 0
Exact(a, b) == IF a = b THEN One ELSE Zero

\* the score of one signal of element against target
SignalScore(signal, element, target) ==
    CASE signal = "text" -> stringSimilarity(element.text, target.text)
      [] signal = "ariaLabel" -> Exact(element.ariaLabel, target.ariaLabel)
      [] signal = "dataAttributes" ->
            Rat(Cardinality({key \in DOMAIN target.dataAttributes :
                                getDataAttribute(element, key)
                                    = target.dataAttributes[key]}),
                Cardinality(DOMAIN target.dataAttributes))
      [] signal = "placeholder" -> Exact(element.placeholder, target.placeholder)
      [] signal = "name" -> Exact(element.name, target.name)
      [] signal = "className" ->
            Rat(Cardinality(ClassSet(target.className) \cap ClassSet(element.className)),
                Cardinality(ClassSet(target.className)))
      [] signal = "position" -> calculatePositionSimilarity(element.rect, target.position)
      [] signal = "role" -> Exact(element.role, target.role)

RECURSIVE SumSignals(_, _, _, _)
\* the running sums totalScore (weighted = TRUE) and totalWeight over signals i..
SumSignals(i, element, target, weighted) ==
    IF i > Len(Signals) THEN Zero
    ELSE LET signal == Signals[i]
             rest == SumSignals(i + 1, element, target, weighted)
         IN  IF ~SignalApplies(signal, target) THEN rest
             ELSE IF weighted
                  THEN RatAdd(RatMul(SignalScore(signal, element, target),
                                     Weight(signal)), rest)
                  ELSE RatAdd(Weight(signal), rest)

\* the weighted sum returned without the division by totalWeight
Normalise_Unnormalised(totalScore, totalWeight) == totalScore

\* totalWeight > 0 ? totalScore / totalWeight : 0
Normalise(totalScore, totalWeight) ==
    IF RatGt(totalWeight, Zero) THEN RatDiv(totalScore, totalWeight) ELSE Zero

\* calculateSimilarityScore(element, target)
calculateSimilarityScore(element, target) ==
    Normalise(SumSignals(1, element, target, TRUE),
              SumSignals(1, element, target, FALSE))

NoElement == [eid |-> -1]

NoLocator == [type |-> "none"]

RECURSIVE BestFrom_LastWins(_, _, _, _, _)
\* the loop of findBestMatch with >= in place of >: the last of the
\* candidates with the highest score wins
BestFrom_LastWins(elements, i, targetAttributes, bestElement, bestScore) ==
    IF i > Len(elements) THEN [element |-> bestElement, confidence |-> bestScore]
    ELSE IF RatGe(calculateSimilarityScore(elements[i], targetAttributes), bestScore)
    THEN BestFrom_LastWins(elements, i + 1, targetAttributes, elements[i],
                           calculateSimilarityScore(elements[i], targetAttributes))
    ELSE BestFrom_LastWins(elements, i + 1, targetAttributes, bestElement, bestScore)

RECURSIVE BestFrom(_, _, _, _, _)
BestFrom(elements, i, targetAttributes, bestElement, bestScore) ==
    IF i > Len(elements) THEN [element |-> bestElement, confidence |-> bestScore]
    ELSE LET score == calculateSimilarityScore(elements[i], targetAttributes)
         IN  IF RatGt(score, bestScore)
             THEN BestFrom(elements, i + 1, targetAttributes, elements[i], score)
             ELSE BestFrom(elements, i + 1, targetAttributes, bestElement, bestScore)

\* findBestMatch answering with the first candidate and its score
findBestMatch_First(elements, targetAttributes) ==
    IF elements = <<>> THEN [element |-> NoElement, confidence |-> Zero]
    ELSE [element |-> elements[1],
          confidence |-> calculateSimilarityScore(elements[1], targetAttributes)]

\* findBestMatch(elements, targetAttributes)
findBestMatch(elements, targetAttributes) ==
    BestFrom(elements, 1, targetAttributes, NoElement, Zero)

\* A matcher outcome: the MatchResult the code returns, and beside it what the
\* call did: the selectors it queried, in order, the number of similarity
\* scores it computed and the return statement it left by.
Outcome(element, locator, confidence, matchedBy, queries, scored, via) ==
    [result |-> [element |-> element, locator |-> locator,
                 confidence |-> confidence, matchedBy |-> matchedBy],
     queries |-> queries, scored |-> scored, via |-> via]

\* the return of findBySimilarity once the candidates are scored
SimilarityOutcome(best, asked, scored) ==
    Outcome(best.element, NoLocator, best.confidence, "similarity", asked, scored,
            "similarity")

\* findBySimilarity(targetAttributes)
findBySimilarity(d, targetAttributes, queries, scored) ==
    IF targetAttributes.tagName = ""
    THEN Outcome(NoElement, NoLocator, Zero, "similarity", queries, scored, "no-tag")
    ELSE SimilarityOutcome(
            findBestMatch(querySelectorAll(d, SelTag(targetAttributes.tagName)).elements,
                          targetAttributes),
            Append(queries, SelTag(targetAttributes.tagName)),
            scored + Len(querySelectorAll(d, SelTag(targetAttributes.tagName)).elements))

RECURSIVE TryLocators(_, _, _, _, _, _)
\* LocatorStep accepting the best of a multi-match whatever its score
LocatorStep_NoGate(d, fingerprint, confidenceThreshold, i, asked, scored, locator, q, bestMatch) ==
    IF q.throws
    THEN TryLocators(d, fingerprint, confidenceThreshold, i + 1, asked, scored)
    ELSE IF Len(q.elements) = 1
    THEN Outcome(q.elements[1], locator, locator.confidence, locator.type,
                 asked, scored, "unique")
    ELSE IF Len(q.elements) > 1 /\ bestMatch.element # NoElement
    THEN Outcome(bestMatch.element, locator, bestMatch.confidence,
                 locator.type, asked, scored + Len(q.elements), "best")
    ELSE TryLocators(d, fingerprint, confidenceThreshold, i + 1, asked,
                     IF Len(q.elements) > 1 THEN scored + Len(q.elements)
                                            ELSE scored)

\* LocatorStep scoring a unique match like any other candidate set
LocatorStep_ScoresUnique(d, fingerprint, confidenceThreshold, i, asked, scored, locator, q, bestMatch) ==
    IF q.throws
    THEN TryLocators(d, fingerprint, confidenceThreshold, i + 1, asked, scored)
    ELSE IF Len(q.elements) = 1
    THEN Outcome(q.elements[1], locator, bestMatch.confidence, locator.type,
                 asked, scored + 1, "unique")
    ELSE IF Len(q.elements) > 1
            /\ RatGe(bestMatch.confidence, confidenceThreshold)
    THEN Outcome(bestMatch.element, locator, bestMatch.confidence,
                 locator.type, asked, scored + Len(q.elements), "best")
    ELSE TryLocators(d, fingerprint, confidenceThreshold, i + 1, asked,
                     IF Len(q.elements) > 1 THEN scored + Len(q.elements)
                                            ELSE scored)

\* LocatorStep with the try around the whole loop: a query that throws ends it
LocatorStep_ThrowEndsLoop(d, fingerprint, confidenceThreshold, i, asked, scored, locator, q, bestMatch) ==
    IF q.throws
    THEN findBySimilarity(d, fingerprint.attributes, asked, scored)
    ELSE IF Len(q.elements) = 1
    THEN Outcome(q.elements[1], locator, locator.confidence, locator.type,
                 asked, scored, "unique")
    ELSE IF Len(q.elements) > 1
            /\ RatGe(bestMatch.confidence, confidenceThreshold)
    THEN Outcome(bestMatch.element, locator, bestMatch.confidence,
                 locator.type, asked, scored + Len(q.elements), "best")
    ELSE TryLocators(d, fingerprint, confidenceThreshold, i + 1, asked,
                     IF Len(q.elements) > 1 THEN scored + Len(q.elements)
                                            ELSE scored)

\* one turn of the loop of findElement: locator is the i-th alternative
\* locator, q the result of its query and bestMatch the best of q's elements
LocatorStep(d, fingerprint, confidenceThreshold, i, asked, scored, locator, q, bestMatch) ==
    IF q.throws
    THEN TryLocators(d, fingerprint, confidenceThreshold, i + 1, asked, scored)
    ELSE IF Len(q.elements) = 1
    THEN Outcome(q.elements[1], locator, locator.confidence, locator.type,
                 asked, scored, "unique")
    ELSE IF Len(q.elements) > 1
            /\ RatGe(bestMatch.confidence, confidenceThreshold)
    THEN Outcome(bestMatch.element, locator, bestMatch.confidence,
                 locator.type, asked, scored + Len(q.elements), "best")
    ELSE TryLocators(d, fingerprint, confidenceThreshold, i + 1, asked,
                     IF Len(q.elements) > 1 THEN scored + Len(q.elements)
                                            ELSE scored)

\* the loop of findElement from the i-th alternative locator on
TryLocators(d, fingerprint, confidenceThreshold, i, queries, scored) ==
    IF i > Len(fingerprint.alternativeLocators)
    THEN findBySimilarity(d, fingerprint.attributes, queries, scored)
    ELSE LocatorStep(d, fingerprint, confidenceThreshold, i,
                     Append(queries, fingerprint.alternativeLocators[i].value),
                     scored,
                     fingerprint.alternativeLocators[i],
                     querySelectorAll(d, fingerprint.alternativeLocators[i].value),
                     findBestMatch(
                        querySelectorAll(d, fingerprint.alternativeLocators[i].value).elements,
                        fingerprint.attributes))

\* findElement making the whole pass again when the first pass ended below
\* the threshold
Matcher_findElement_Retries(d, fingerprint, confidenceThreshold) ==
    IF RatGe(TryLocators(d, fingerprint, confidenceThreshold, 1, <<>>, 0).result.confidence,
             confidenceThreshold)
    THEN TryLocators(d, fingerprint, confidenceThreshold, 1, <<>>, 0)
    ELSE TryLocators(d, fingerprint, confidenceThreshold, 1,
                     TryLocators(d, fingerprint, confidenceThreshold, 1, <<>>, 0).queries,
                     TryLocators(d, fingerprint, confidenceThreshold, 1, <<>>, 0).scored)

\* ElementMatcher.findElement(fingerprint) against document d
Matcher_findElement(d, fingerprint, confidenceThreshold) ==
    TryLocators(d, fingerprint, confidenceThreshold, 1, <<>>, 0)

----------------------------------------------------------------------------
(* Fingerprint store *)

Names == {"usernameInput", "loginButton"}

NoFingerprint == [name |-> ""]

\* saveFingerprint keeping the fingerprint a name already has
saveFingerprint_FirstWins(fps, fingerprint) ==
    IF fps[fingerprint.name] # NoFingerprint THEN fps
    ELSE [fps EXCEPT ![fingerprint.name] = fingerprint]

\* LocatorStore.saveFingerprint(fingerprint)
saveFingerprint(fps, fingerprint) == [fps EXCEPT ![fingerprint.name] = fingerprint]

\* LocatorStore.getFingerprint(name): the stored object itself, not a copy
getFingerprint(fps, name) == fps[name]

\* LocatorStore.hasFingerprint(name)
hasFingerprint(fps, name) == fps[name] # NoFingerprint

\* recordHealingEvent putting the event at the head of the log
recordHealingEvent_Prepends(fps, events, event) ==
    [healingEvents |-> <<event>> \o events,
     fingerprints |->
        IF fps[event.elementName] # NoFingerprint
        THEN [fps EXCEPT ![event.elementName].healCount = @ + 1]
        ELSE fps]

\* LocatorStore.recordHealingEvent(event): pushes the event and increments
\* healCount on the stored fingerprint object in place
recordHealingEvent(fps, events, event) ==
    [healingEvents |-> Append(events, event),
     fingerprints |->
        IF fps[event.elementName] # NoFingerprint
        THEN [fps EXCEPT ![event.elementName].healCount = @ + 1]
        ELSE fps]

\* LocatorStore.getHealingEvents(): a copy of the log
getHealingEvents(events) == events

\* LocatorStore.clearHealingEvents()
clearHealingEvents(events) == <<>>

\* LocatorStore.getAllFingerprints(): the values of the map as an array, in
\* the map's insertion order.  The model keeps the map as a function and not
\* its insertion order, so this is the set of the arrays that hold every
\* stored fingerprint once: the array the code returns is one of them.
getAllFingerprints(fps) ==
    LET stored == {fps[n] : n \in {m \in DOMAIN fps : fps[m] # NoFingerprint}}
    IN  {a \in [1..Cardinality(stored) -> stored] :
            \A i, j \in 1..Cardinality(stored) : a[i] = a[j] => i = j}

\* LocatorStore.export(): one snapshot for each array getAllFingerprints may
\* return
export(fps, events) ==
    {[fingerprints |-> a, healingEvents |-> getHealingEvents(events)] :
        a \in getAllFingerprints(fps)}

RECURSIVE SetAll(_, _)
\* data.fingerprints.forEach((fp) => this.fingerprints.set(fp.name, fp))
SetAll(fps, list) ==
    IF list = <<>> THEN fps
    ELSE SetAll([fps EXCEPT ![Head(list).name] = Head(list)], Tail(list))

\* import replacing the map by the snapshot's fingerprints
import_ReplacesMap(fps, events, data) ==
    [fingerprints |-> SetAll([n \in DOMAIN fps |-> NoFingerprint], data.fingerprints),
     healingEvents |-> data.healingEvents]

\* import appending the snapshot's events to the log
import_AppendsEvents(fps, events, data) ==
    [fingerprints |-> SetAll(fps, data.fingerprints),
     healingEvents |-> events \o data.healingEvents]

\* LocatorStore.import(data)
import(fps, events, data) ==
    [fingerprints |-> SetAll(fps, data.fingerprints),
     healingEvents |-> data.healingEvents]

----------------------------------------------------------------------------
(* Healing orchestrator *)

SimilarityBased == [kind |-> "similarity-based"]

\* (x * 100).toFixed(1), in tenths of a percent
ToFixed1(x) == (2 * 1000 * x.num + x.den) \div (2 * x.den)

NoError == [kind |-> "none"]

NoMatch ==
    [element |-> NoElement, locator |-> NoLocator, confidence |-> Zero,
     matchedBy |-> "none"]

\* What a command did: its outcome, the element it returned, the error it
\* raised, every document query it made (in order), the number of similarity
\* scores computed, and the matcher's result when the matcher ran; page is
\* the document the command ran against, filled in by the command.
Done(op, name, locator, outcome, element, error, queries, scored, match, via) ==
    [op |-> op, name |-> name, locator |-> locator, outcome |-> outcome,
     element |-> element, error |-> error, queries |-> queries,
     scored |-> scored, match |-> match, via |-> via, page |-> 0]

\* the state a command leaves: the store and the command's record
After(fps, events, done) ==
    [fingerprints |-> fps, healingEvents |-> events, last |-> done]

\* HealingEvent without the fallback to the sentinel: a result with no locator
\* leaves healedLocator undefined
HealingEvent_NoSentinel(result, now, primaryLocator, elementName, context) ==
    [timestamp |-> now,
     elementName |-> elementName,
     originalLocator |-> primaryLocator,
     healedLocator |-> IF result.locator # NoLocator
                       THEN result.locator.value ELSE NoSelector,
     strategy |-> result.matchedBy,
     confidence |-> result.confidence,
     testFile |-> context.testFile,
     testName |-> context.testName]

\* the HealingEvent healAndFind builds from the matcher's result
HealingEvent(result, now, primaryLocator, elementName, context) ==
    [timestamp |-> now,
     elementName |-> elementName,
     originalLocator |-> primaryLocator,
     healedLocator |-> IF result.locator # NoLocator
                       THEN result.locator.value ELSE SimilarityBased,
     strategy |-> result.matchedBy,
     confidence |-> result.confidence,
     testFile |-> context.testFile,
     testName |-> context.testName]

\* SaveHealed building the updated fingerprint without the spread of the
\* stored one: its alternative locators are lost
SaveHealed_NoSpread(recorded, elementName, now) ==
    saveFingerprint(recorded.fingerprints,
        [recorded.fingerprints[elementName] EXCEPT
            !.healCount = recorded.fingerprints[elementName].healCount + 1,
            !.lastSeen = now,
            !.alternativeLocators = <<>>])

\* the end of healAndFind: `fingerprint` is the object the store holds, so
\* after recordHealingEvent it shows the increment made there, and
\* updatedFingerprint = {...fingerprint, healCount: fingerprint.healCount + 1,
\* lastSeen: new Date()} is saved over it
SaveHealed(recorded, elementName, now) ==
    saveFingerprint(recorded.fingerprints,
        [recorded.fingerprints[elementName] EXCEPT
            !.healCount = recorded.fingerprints[elementName].healCount + 1,
            !.lastSeen = now])

\* healAndFind after recordHealingEvent has left the store as `recorded`
Healed(recorded, m, now, primaryLocator, elementName, queries) ==
    After(SaveHealed(recorded, elementName, now),
          recorded.healingEvents,
          Done("heal", elementName, primaryLocator, "DONE_HEALED",
               m.result.element, NoError,
               queries \o m.queries, m.scored, m.result, m.via))

\* HealWith with the healing event recorded before the confidence is checked
HealWith_RecordsFirst(m, cfg, fps, events, now, primaryLocator, elementName, context, queries) ==
    IF m.result.element = NoElement
       \/ RatLt(m.result.confidence, cfg.confidenceThreshold)
    THEN After(recordHealingEvent(fps, events,
                                  HealingEvent(m.result, now, primaryLocator,
                                               elementName, context)).fingerprints,
               Append(events, HealingEvent(m.result, now, primaryLocator,
                                           elementName, context)),
               Done("heal", elementName, primaryLocator, "LowConfidenceHeal",
                    NoElement,
                    [kind |-> "LowConfidenceHeal", elementName |-> elementName,
                     confidence |-> ToFixed1(m.result.confidence),
                     threshold |-> ToFixed1(cfg.confidenceThreshold)],
                    queries \o m.queries, m.scored, m.result, m.via))
    ELSE Healed(recordHealingEvent(fps, events,
                                   HealingEvent(m.result, now, primaryLocator,
                                                elementName, context)),
                m, now, primaryLocator, elementName, queries)

\* HealWith comparing against the default threshold instead of the configured
HealWith_DefaultThreshold(m, cfg, fps, events, now, primaryLocator, elementName, context, queries) ==
    IF m.result.element = NoElement
       \/ RatLt(m.result.confidence, Rat(60, 100))
    THEN After(fps, events,
               Done("heal", elementName, primaryLocator, "LowConfidenceHeal",
                    NoElement,
                    [kind |-> "LowConfidenceHeal", elementName |-> elementName,
                     confidence |-> ToFixed1(m.result.confidence),
                     threshold |-> ToFixed1(cfg.confidenceThreshold)],
                    queries \o m.queries, m.scored, m.result, m.via))
    ELSE Healed(recordHealingEvent(fps, events,
                                   HealingEvent(m.result, now, primaryLocator,
                                                elementName, context)),
                m, now, primaryLocator, elementName, queries)

\* healAndFind once the matcher has answered m
HealWith(m, cfg, fps, events, now, primaryLocator, elementName, context, queries) ==
    IF m.result.element = NoElement
       \/ RatLt(m.result.confidence, cfg.confidenceThreshold)
    THEN After(fps, events,
               Done("heal", elementName, primaryLocator, "LowConfidenceHeal",
                    NoElement,
                    [kind |-> "LowConfidenceHeal", elementName |-> elementName,
                     confidence |-> ToFixed1(m.result.confidence),
                     threshold |-> ToFixed1(cfg.confidenceThreshold)],
                    queries \o m.queries, m.scored, m.result, m.via))
    ELSE Healed(recordHealingEvent(fps, events,
                                   HealingEvent(m.result, now, primaryLocator,
                                                elementName, context)),
                m, now, primaryLocator, elementName, queries)

\* healAndFind reporting a missing fingerprint as a failed match
healAndFind_MissingAsNoMatch(d, cfg, fps, events, now, primaryLocator, elementName, context, queries) ==
    IF getFingerprint(fps, elementName) = NoFingerprint
    THEN After(fps, events,
               Done("heal", elementName, primaryLocator, "LowConfidenceHeal",
                    NoElement,
                    [kind |-> "LowConfidenceHeal", elementName |-> elementName,
                     confidence |-> 0,
                     threshold |-> ToFixed1(cfg.confidenceThreshold)],
                    queries, 0, NoMatch, "none"))
    ELSE HealWith(Matcher_findElement(d, getFingerprint(fps, elementName),
                                      cfg.confidenceThreshold),
                  cfg, fps, events, now, primaryLocator, elementName, context, queries)

\* SelfHealingEngine.healAndFind(primaryLocator, elementName, context); queries
\* holds the primary query findElement made before
healAndFind(d, cfg, fps, events, now, primaryLocator, elementName, context, queries) ==
    IF getFingerprint(fps, elementName) = NoFingerprint
    THEN After(fps, events,
               Done("heal", elementName, primaryLocator, "NoFingerprintAvailable",
                    NoElement,
                    [kind |-> "NoFingerprintAvailable", elementName |-> elementName,
                     locator |-> primaryLocator],
                    queries, 0, NoMatch, "none"))
    ELSE HealWith(Matcher_findElement(d, getFingerprint(fps, elementName),
                                      cfg.confidenceThreshold),
                  cfg, fps, events, now, primaryLocator, elementName, context, queries)

\* FindWith capturing on a direct resolution only when the name has no
\* fingerprint yet
FindWith_KeepsStored(primaryResult, d, cfg, fps, events, now, primaryLocator, elementName, context) ==
    IF primaryResult.throws
    THEN After(fps, events,
               Done("heal", elementName, primaryLocator, "SyntaxError", NoElement,
                    [kind |-> "SyntaxError", locator |-> primaryLocator],
                    <<primaryLocator>>, 0, NoMatch, "none"))
    ELSE IF Len(primaryResult.elements) = 1
    THEN After(IF hasFingerprint(fps, elementName) THEN fps
               ELSE saveFingerprint(fps,
                        captureElementFingerprint(primaryResult.elements[1],
                                                  elementName, primaryLocator, now)),
               events,
               Done("heal", elementName, primaryLocator, "DONE_DIRECT",
                    primaryResult.elements[1], NoError, <<primaryLocator>>, 0,
                    NoMatch, "none"))
    ELSE IF ~cfg.enabled
    THEN After(fps, events,
               Done("heal", elementName, primaryLocator, "NotFoundNoHealing",
                    NoElement,
                    [kind |-> "NotFoundNoHealing", locator |-> primaryLocator],
                    <<primaryLocator>>, 0, NoMatch, "none"))
    ELSE healAndFind(d, cfg, fps, events, now, primaryLocator, elementName,
                     context, <<primaryLocator>>)

\* findElement once the primary query has answered primaryResult
FindWith(primaryResult, d, cfg, fps, events, now, primaryLocator, elementName, context) ==
    IF primaryResult.throws
    THEN After(fps, events,
               Done("heal", elementName, primaryLocator, "SyntaxError", NoElement,
                    [kind |-> "SyntaxError", locator |-> primaryLocator],
                    <<primaryLocator>>, 0, NoMatch, "none"))
    ELSE IF Len(primaryResult.elements) = 1
    THEN After(saveFingerprint(fps,
                    captureElementFingerprint(primaryResult.elements[1],
                                              elementName, primaryLocator, now)),
               events,
               Done("heal", elementName, primaryLocator, "DONE_DIRECT",
                    primaryResult.elements[1], NoError, <<primaryLocator>>, 0,
                    NoMatch, "none"))
    ELSE IF ~cfg.enabled
    THEN After(fps, events,
               Done("heal", elementName, primaryLocator, "NotFoundNoHealing",
                    NoElement,
                    [kind |-> "NotFoundNoHealing", locator |-> primaryLocator],
                    <<primaryLocator>>, 0, NoMatch, "none"))
    ELSE healAndFind(d, cfg, fps, events, now, primaryLocator, elementName,
                     context, <<primaryLocator>>)

\* SelfHealingEngine.findElement(primaryLocator, elementName, context)
Engine_findElement(d, cfg, fps, events, now, primaryLocator, elementName, context) ==
    FindWith(querySelectorAll(d, primaryLocator), d, cfg, fps, events, now,
             primaryLocator, elementName, context)

\* RegisterWith carrying the heal count of the stored fingerprint over to the
\* new one
RegisterWith_KeepsHealCount(found, fps, events, now, locator, elementName) ==
    IF found = <<>>
    THEN After(fps, events,
               Done("register", elementName, locator, "GetFailed", NoElement,
                    [kind |-> "GetFailed", locator |-> locator],
                    <<locator>>, 0, NoMatch, "none"))
    ELSE After(saveFingerprint(fps,
                    [captureElementFingerprint(found[1], elementName, locator, now)
                        EXCEPT !.healCount = IF hasFingerprint(fps, elementName)
                                             THEN fps[elementName].healCount
                                             ELSE 0]),
               events,
               Done("register", elementName, locator, "REGISTERED", found[1],
                    NoError, <<locator>>, 0, NoMatch, "none"))

\* registerElement once cy.get has yielded found
RegisterWith(found, fps, events, now, locator, elementName) ==
    IF found = <<>>
    THEN After(fps, events,
               Done("register", elementName, locator, "GetFailed", NoElement,
                    [kind |-> "GetFailed", locator |-> locator],
                    <<locator>>, 0, NoMatch, "none"))
    ELSE After(saveFingerprint(fps,
                    captureElementFingerprint(found[1], elementName, locator, now)),
               events,
               Done("register", elementName, locator, "REGISTERED", found[1],
                    NoError, <<locator>>, 0, NoMatch, "none"))

\* SelfHealingEngine.registerElement(locator, elementName): cy.get fails the
\* command when the locator resolves nothing
Engine_registerElement(d, fps, events, now, locator, elementName) ==
    RegisterWith(cyGet(d, locator), fps, events, now, locator, elementName)

----------------
(* Commands *)

\* the locators test steps pass: `#username`, `.field` and
\* `button:contains("Log")`
Locators ==
    {SelId("username"), SelClass("field"), SelContains("button", <<"L", "o", "g">>)}

Contexts == {[testFile |-> "cypress/e2e/self-healing.cy.ts", testName |-> "t1"]}

\* the configurations an engine is constructed with: the defaults (healing
\* enabled, threshold 0.6), a threshold of 0.99, and healing disabled
Configs ==
    {[enabled |-> TRUE, confidenceThreshold |-> Rat(60, 100)],
     [enabled |-> TRUE, confidenceThreshold |-> Rat(99, 100)],
     [enabled |-> FALSE, confidenceThreshold |-> Rat(60, 100)]}

Init ==
    /\ doc = 1
    /\ config \in Configs
    /\ fingerprints = [n \in Names |-> NoFingerprint]
    /\ healingEvents = <<>>
    /\ clock = 0
    /\ last = Done("none", "", NoSelector, "none", NoElement, NoError, <<>>, 0,
                   NoMatch, "none")

\* the application under test re-renders between two commands
ChangeDocument(d) ==
    /\ d # doc
    /\ doc' = d
    /\ UNCHANGED <<config, fingerprints, healingEvents, clock, last>>

\* the store and the command record take the values a command left
Becomes(after) ==
    /\ fingerprints' = after.fingerprints
    /\ healingEvents' = after.healingEvents
    /\ last' = [after.last EXCEPT !.page = doc]

\* cy.heal(locator, elementName)
Heal(locator, elementName, context) ==
    /\ clock < MaxClock
    /\ Becomes(Engine_findElement(doc, config, fingerprints, healingEvents,
                                  clock + 1, locator, elementName, context))
    /\ clock' = clock + 1
    /\ UNCHANGED <<doc, config>>

\* cy.registerForHealing(locator, elementName)
Register(locator, elementName) ==
    /\ clock < MaxClock
    /\ Becomes(Engine_registerElement(doc, fingerprints, healingEvents,
                                      clock + 1, locator, elementName))
    /\ clock' = clock + 1
    /\ UNCHANGED <<doc, config>>

Next ==
    \/ \E d \in 1..Len(Docs) : ChangeDocument(d)
    \/ \E l \in Locators, n \in Names, c \in Contexts : Heal(l, n, c)
    \/ \E l \in Locators, n \in Names : Register(l, n)

Spec == Init /\ [][Next]_vars

----------------------------------------------------------------------------
(* Capture and matching taken alone: an element is given, its fingerprint  *)
(* is captured and saved, and the matcher is run on it against a document. *)

DataCy(v) == [k \in {"data-cy"} |-> v]

TestIdAndCy(t, c) == [k \in {"data-testid", "data-cy"} |->
                        IF k = "data-testid" THEN t ELSE c]

\* a text of n characters
Text(n) == [i \in 1..n |-> "a"]

\* the elements handed to capture: every combination of the attributes
\* generateAlternativeLocators looks at, with texts on both sides of its
\* length limit and class names of no, one and two tokens, a token being one
\* some element of the restructured page has
Elements ==
    {[Bare EXCEPT !.data = da, !.id = i, !.ariaLabel = al, !.name = nm,
                  !.placeholder = ph, !.role = ro, !.text = tx,
                  !.className = cn, !.parent = pa] :
        da \in {NoData, TestId("t"), DataCy("c"), TestIdAndCy("t", "c")},
        i \in {"", "x"}, al \in {"", "l"}, nm \in {"", "n"}, ph \in {"", "Search"},
        ro \in {"", "r"},
        tx \in {<<>>, <<"L", "o", "g">>, Text(TextLocatorMax - 1), Text(TextLocatorMax)},
        cn \in {<<>>, <<"f1">>, <<"x", "d">>},
        pa \in {Body, Form}}
    \cup {[Bare EXCEPT !.tagName = t] : t \in {"span", "button"}}

CaptureInit ==
    /\ doc = 1
    /\ config \in {c \in Configs : c.enabled}
    /\ fingerprints = [n \in Names |-> NoFingerprint]
    /\ healingEvents = <<>>
    /\ clock = 0
    /\ \E e \in Elements :
          last = Done("input", "", SelTag(e.tagName), "none", e, NoError, <<>>, 0,
                      NoMatch, "none")

\* captureElementFingerprint on the given element, saved under elementName
Capture(elementName) ==
    /\ last.op = "input"
    /\ fingerprints' = saveFingerprint(fingerprints,
                          captureElementFingerprint(last.element, elementName,
                                                    last.locator, clock + 1))
    /\ last' = [last EXCEPT !.op = "capture", !.name = elementName]
    /\ clock' = clock + 1
    /\ UNCHANGED <<doc, config, healingEvents>>

\* the record of a matcher call that answered m
Matched(m, done) ==
    [done EXCEPT !.op = "match", !.queries = m.queries, !.scored = m.scored,
                 !.match = m.result, !.via = m.via]

\* ElementMatcher.findElement on the captured fingerprint, the page being d
Match(d) ==
    /\ last.op = "capture"
    /\ doc' = d
    /\ last' = Matched(Matcher_findElement(d, fingerprints[last.name],
                                           config.confidenceThreshold), last)
    /\ clock' = clock + 1
    /\ UNCHANGED <<config, fingerprints, healingEvents>>

\* a primary locator that no element of any page matches
BrokenLocator == SelId("gone")

\* cy.heal(BrokenLocator, name) for the captured name, the page being d
HealBroken(d, context) ==
    /\ last.op = "capture"
    /\ doc' = d
    /\ LET after == Engine_findElement(d, config, fingerprints, healingEvents,
                                       clock + 1, BrokenLocator, last.name, context)
       IN  /\ fingerprints' = after.fingerprints
           /\ healingEvents' = after.healingEvents
           /\ last' = [after.last EXCEPT !.page = d]
    /\ clock' = clock + 1
    /\ UNCHANGED config

\* the selectors whose elements are handed to findBestMatch: the elements of
\* one class, none on two of the pages, and those of one tag
CandidateSelectors == {SelClass("x"), SelTag("input")}

\* findBestMatch on the elements of page d that match sel, the target being
\* the captured attributes
FindBest(d, sel) ==
    /\ last.op = "capture"
    /\ doc' = d
    /\ last' = [op |-> "findBestMatch",
                elements |-> querySelectorAll(d, sel).elements,
                target |-> fingerprints[last.name].attributes,
                value |-> findBestMatch(querySelectorAll(d, sel).elements,
                                        fingerprints[last.name].attributes)]
    /\ clock' = clock + 1
    /\ UNCHANGED <<config, fingerprints, healingEvents>>

CaptureNext ==
    \/ \E n \in {"usernameInput"} : Capture(n)
    \/ \E d \in 1..Len(Docs) : Match(d)
    \/ \E d \in 1..Len(Docs), c \in Contexts : HealBroken(d, c)
    \/ \E d \in 1..Len(Docs), sel \in CandidateSelectors : FindBest(d, sel)

CaptureSpec == CaptureInit /\ [][CaptureNext]_vars

----------------------------------------------------------------------------
(* calculateSimilarityScore applied to a candidate and a target *)

\* the attributes a target holds when it holds them all
FullTarget ==
    [extractAttributes(Bare) EXCEPT
        !.text = <<"a", "b">>, !.ariaLabel = "l",
        !.dataAttributes = TestIdAndCy("t", "c"), !.placeholder = "p",
        !.name = "n", !.className = <<"c", "d">>, !.role = "r",
        !.position = Rect(0, 0, 100, 20)]

\* the targets: each of the eight scored attributes held or absent
Targets ==
    {[FullTarget EXCEPT
        !.text = IF "text" \in held THEN @ ELSE <<>>,
        !.ariaLabel = IF "ariaLabel" \in held THEN @ ELSE "",
        !.dataAttributes = IF "dataAttributes" \in held THEN @ ELSE NoData,
        !.placeholder = IF "placeholder" \in held THEN @ ELSE "",
        !.name = IF "name" \in held THEN @ ELSE "",
        !.className = IF "className" \in held THEN @ ELSE <<>>,
        !.position = IF "position" \in held THEN @ ELSE NoPosition,
        !.role = IF "role" \in held THEN @ ELSE ""] :
        held \in SUBSET SeqToSet(Signals)}

\* the candidates: one with no attribute and far from the target, one that
\* has every attribute with another value, one that has half of the
\* target's text, data attributes and classes
Candidates ==
    {Bare,
     [Bare EXCEPT !.text = <<"b", "a">>, !.ariaLabel = "x",
                  !.data = TestIdAndCy("u", "v"), !.placeholder = "x",
                  !.name = "x", !.className = <<"e">>, !.role = "x",
                  !.rect = Rect(0, 100, 200, 100)],
     [Bare EXCEPT !.text = <<"a">>, !.data = TestId("t"),
                  !.className = <<"c", "e">>, !.rect = Rect(0, 100, 100, 20)]}

ScoreInit ==
    /\ doc = 1
    /\ config \in {c \in Configs : c.enabled /\ c.confidenceThreshold = Rat(60, 100)}
    /\ fingerprints = [n \in Names |-> NoFingerprint]
    /\ healingEvents = <<>>
    /\ clock = 0
    /\ \E e \in Candidates, t \in Targets :
          last = [op |-> "candidate", element |-> e, target |-> t,
                  signal |-> "", value |-> Zero]

\* calculateSimilarityScore(element, target) on the candidate
Score ==
    /\ last.op = "candidate"
    /\ last' = [last EXCEPT !.op = "score",
                            !.value = calculateSimilarityScore(last.element,
                                                               last.target)]
    /\ clock' = clock + 1
    /\ UNCHANGED <<doc, config, fingerprints, healingEvents>>

\* whether what the element has for the signal is what the target holds
HasExactly(signal, element, target) ==
    CASE signal = "text" -> element.text = target.text
      [] signal = "ariaLabel" -> element.ariaLabel = target.ariaLabel
      [] signal = "dataAttributes" -> element.data = target.dataAttributes
      [] signal = "placeholder" -> element.placeholder = target.placeholder
      [] signal = "name" -> element.name = target.name
      [] signal = "className" -> element.className = target.className
      [] signal = "position" -> element.rect = target.position
      [] signal = "role" -> element.role = target.role

\* the element given what the target holds for the signal
WithExactly(signal, element, target) ==
    CASE signal = "text" -> [element EXCEPT !.text = target.text]
      [] signal = "ariaLabel" -> [element EXCEPT !.ariaLabel = target.ariaLabel]
      [] signal = "dataAttributes" -> [element EXCEPT !.data = target.dataAttributes]
      [] signal = "placeholder" -> [element EXCEPT !.placeholder = target.placeholder]
      [] signal = "name" -> [element EXCEPT !.name = target.name]
      [] signal = "className" -> [element EXCEPT !.className = target.className]
      [] signal = "position" -> [element EXCEPT !.rect = target.position]
      [] signal = "role" -> [element EXCEPT !.role = target.role]

\* the page changes so that the candidate has, for one more signal of the
\* target, exactly what the target holds, and the candidate is scored again
Improve(signal) ==
    /\ last.op \in {"score", "improve"}
    /\ SignalApplies(signal, last.target)
    /\ ~HasExactly(signal, last.element, last.target)
    /\ LET improved == WithExactly(signal, last.element, last.target)
       IN  last' = [last EXCEPT !.op = "improve", !.element = improved,
                               !.signal = signal,
                               !.value = calculateSimilarityScore(improved,
                                                                  last.target)]
    /\ clock' = clock + 1
    /\ UNCHANGED <<doc, config, fingerprints, healingEvents>>

ScoreNext ==
    \/ Score
    \/ \E signal \in SeqToSet(Signals) : Improve(signal)

ScoreSpec == ScoreInit /\ [][ScoreNext]_vars

----------------------------------------------------------------------------
(* stringSimilarity applied to two strings *)

\* the longest string compared
MaxLen == 3

\* the strings of at most MaxLen characters over two letters
Strings == UNION {[1..n -> {"a", "b"}] : n \in 0..MaxLen}

StringInit ==
    /\ doc = 1
    /\ config \in {c \in Configs : c.enabled /\ c.confidenceThreshold = Rat(60, 100)}
    /\ fingerprints = [n \in Names |-> NoFingerprint]
    /\ healingEvents = <<>>
    /\ clock = 0
    /\ \E a, b \in Strings : last = [op |-> "strings", str1 |-> a, str2 |-> b]

\* stringSimilarity(str1, str2) on the two strings
Compare ==
    /\ last.op = "strings"
    /\ last' = [op |-> "stringSimilarity", str1 |-> last.str1, str2 |-> last.str2,
                value |-> stringSimilarity(last.str1, last.str2)]
    /\ clock' = clock + 1
    /\ UNCHANGED <<doc, config, fingerprints, healingEvents>>

StringNext == Compare

StringSpec == StringInit /\ [][StringNext]_vars

----------------------------------------------------------------------------
(* The store driven directly: LocatorStore's methods called by a client of
   the class between the commands *)

\* fingerprints a client saves: what capture made of the elements of the
\* first page
SavedFingerprints ==
    {captureElementFingerprint(e, n, SelId(e.id), 0) :
        e \in {Username, Login}, n \in Names}

\* healing events a client records or a snapshot holds
RecordedEvents ==
    {[timestamp |-> 0, elementName |-> n, originalLocator |-> SelId("username"),
      healedLocator |-> SelAttr("name", "username"), strategy |-> "name",
      confidence |-> Rat(85, 100),
      testFile |-> "cypress/e2e/self-healing.cy.ts", testName |-> "t1"] :
        n \in Names}

\* fingerprints of a snapshot: exported after a heal, so healed once
SnapshotFingerprints ==
    {[x EXCEPT !.healCount = 1] :
        x \in {y \in SavedFingerprints :
                  y.name = "loginButton" \/ y.attributes.tagName = "button"}}

\* the snapshots a client imports: none, one or two fingerprints, the two
\* of one name, with no or one event
Snapshots ==
    {[fingerprints |-> f, healingEvents |-> h] :
        f \in {<<>>} \cup {<<x>> : x \in SnapshotFingerprints}
              \cup {<<x, y>> : x, y \in {z \in SnapshotFingerprints :
                                            z.name = "loginButton"}},
        h \in {<<>>} \cup {<<ev>> : ev \in {r \in RecordedEvents :
                                               r.elementName = "loginButton"}}}

\* the record of a call of a store method: the name it was about and the
\* value it took or returned
StoreCall(op, name, value) == [op |-> op, name |-> name, value |-> value]

\* store.saveFingerprint(fingerprint)
Save(fingerprint) ==
    /\ clock < MaxClock
    /\ fingerprints' = saveFingerprint(fingerprints, fingerprint)
    /\ last' = StoreCall("save", fingerprint.name, fingerprint)
    /\ clock' = clock + 1
    /\ UNCHANGED <<doc, config, healingEvents>>

\* store.recordHealingEvent(event)
RecordEvent(event) ==
    /\ clock < MaxClock
    /\ LET recorded == recordHealingEvent(fingerprints, healingEvents, event)
       IN  /\ fingerprints' = recorded.fingerprints
           /\ healingEvents' = recorded.healingEvents
    /\ last' = StoreCall("recordEvent", event.elementName, event)
    /\ clock' = clock + 1
    /\ UNCHANGED <<doc, config>>

\* store.clearHealingEvents()
ClearEvents ==
    /\ clock < MaxClock
    /\ healingEvents' = clearHealingEvents(healingEvents)
    /\ last' = StoreCall("clearEvents", "", <<>>)
    /\ clock' = clock + 1
    /\ UNCHANGED <<doc, config, fingerprints>>

\* store.export(): the snapshot is kept by the caller
Export ==
    /\ clock < MaxClock
    /\ \E data \in export(fingerprints, healingEvents) :
          last' = StoreCall("export", "", data)
    /\ clock' = clock + 1
    /\ UNCHANGED <<doc, config, fingerprints, healingEvents>>

\* store.import(data)
Import(data) ==
    /\ clock < MaxClock
    /\ LET imported == import(fingerprints, healingEvents, data)
       IN  /\ fingerprints' = imported.fingerprints
           /\ healingEvents' = imported.healingEvents
    /\ last' = StoreCall("import", "", data)
    /\ clock' = clock + 1
    /\ UNCHANGED <<doc, config>>

\* the locators of the commands issued between the store calls
StoreLocators == {SelId("username"), SelClass("field")}

StoreNext ==
    \/ \E fp \in SavedFingerprints : Save(fp)
    \/ \E ev \in RecordedEvents : RecordEvent(ev)
    \/ ClearEvents
    \/ Export
    \/ \E data \in Snapshots : Import(data)
    \/ \E d \in 1..Len(Docs) : ChangeDocument(d)
    \/ \E l \in StoreLocators, n \in Names, c \in Contexts : Heal(l, n, c)
    \/ \E l \in StoreLocators, n \in Names : Register(l, n)

StoreSpec == Init /\ [][StoreNext]_vars

----------------------------------------------------------------------------
(* Properties *)

\* a step that is a cy.heal command
HealStep == clock' # clock /\ last'.op = "heal"

FatalKinds == {"NotFoundNoHealing", "NoFingerprintAvailable", "LowConfidenceHeal"}

\* C1: every heal that ends in DONE_HEALED leaves the fingerprint stored under
\* the name with a heal count exactly 1 greater than the count stored under it
\* just before the call.
C1_HealedIncrementsByOne ==
    [][(HealStep /\ last'.outcome = "DONE_HEALED")
        => fingerprints'[last'.name].healCount
              = fingerprints[last'.name].healCount + 1]_vars

\* C2: for every element name, the heal count of its stored fingerprint never
\* decreases, whatever register and heal commands run.
C2_HealCountNeverDecreases ==
    [][\A n \in Names :
          (hasFingerprint(fingerprints, n) /\ hasFingerprint(fingerprints', n))
          => fingerprints'[n].healCount >= fingerprints[n].healCount]_vars

\* C3: whatever the document queries of a heal call do, the only failures that
\* reach the caller are NotFoundNoHealing, NoFingerprintAvailable and
\* LowConfidenceHeal.
C3_OnlyFatalKindsEscape ==
    last.op = "heal" => last.error.kind \in FatalKinds \cup {"none"}

\* C4: a heal call that ends in NotFoundNoHealing, NoFingerprintAvailable or
\* LowConfidenceHeal leaves the fingerprint map and the healing-event log
\* exactly as they were before the call.
C4_FailureLeavesStoreUnchanged ==
    [][(HealStep /\ last'.outcome \in FatalKinds)
        => (fingerprints' = fingerprints /\ healingEvents' = healingEvents)]_vars

\* C4 witness: a heal was rejected for low confidence after the matcher had
\* found a candidate, with a healing event already in the log
C4_Witness ==
    /\ last.outcome = "LowConfidenceHeal"
    /\ last.match.element # NoElement
    /\ healingEvents # <<>>

\* a heal step in which the matcher ran
MatchStep == HealStep /\ last'.via # "none"

\* the queries the matcher made: every query of the call but the primary one
MatcherQueries(done) == Tail(done.queries)

\* the values of the first k alternative locators of fp, in stored order
FirstValues(fp, k) == [i \in 1..k |-> fp.alternativeLocators[i].value]

RECURSIVE ScoredUpTo(_, _, _)
\* the number of similarity scores the first k strategies of fp call for in
\* document d: one per element of every multi-match
ScoredUpTo(d, fp, k) ==
    IF k = 0 THEN 0
    ELSE LET q == querySelectorAll(d, fp.alternativeLocators[k].value)
         IN  ScoredUpTo(d, fp, k - 1)
             + (IF ~q.throws /\ Len(q.elements) > 1 THEN Len(q.elements) ELSE 0)

\* whether the i-th strategy of fp yields, in document d, a unique match or a
\* multi-match with a candidate scoring at least t
Accepts(d, fp, t, i) ==
    LET q == querySelectorAll(d, fp.alternativeLocators[i].value)
    IN  /\ ~q.throws
        /\ \/ Len(q.elements) = 1
           \/ /\ Len(q.elements) > 1
              /\ \E j \in 1..Len(q.elements) :
                    RatGe(calculateSimilarityScore(q.elements[j], fp.attributes), t)

SetMin(S) == CHOOSE x \in S : \A y \in S : x <= y

\* C5 as stated: match never returns an element with a confidence strictly
\* below the threshold unless the result came from the uniqueness
\* short-circuit; results of the similarity fallback included.
C5_ThresholdGate ==
    (last.match.element # NoElement /\ last.via # "unique")
    => RatGe(last.match.confidence, config.confidenceThreshold)

\* C5 amended: match never returns an element with a confidence strictly below
\* the threshold unless the result came from the uniqueness short-circuit or
\* from the full-document similarity fallback, which returns its best-scoring
\* candidate whatever its score.
C5_ThresholdGateAmended ==
    (last.match.element # NoElement /\ last.via \notin {"unique", "similarity"})
    => RatGe(last.match.confidence, config.confidenceThreshold)

\* C5 witness: a multi-match was disambiguated and accepted
C5_Witness ==
    /\ last.via = "best"
    /\ last.match.element # NoElement
    /\ RatLt(last.match.confidence, One)

\* C6: each heal call ends in the terminal state the decision list gives:
\* exactly one element for the primary query -> DONE_DIRECT; else healing
\* disabled -> NotFoundNoHealing; else no fingerprint under the name ->
\* NoFingerprintAvailable; else no element or a confidence below the threshold
\* from the matcher -> LowConfidenceHeal; else DONE_HEALED.
C6_TerminalState ==
    [][HealStep =>
        last'.outcome =
            IF Len(querySelectorAll(doc, last'.locator).elements) = 1
            THEN "DONE_DIRECT"
            ELSE IF ~config.enabled THEN "NotFoundNoHealing"
            ELSE IF ~hasFingerprint(fingerprints, last'.name)
            THEN "NoFingerprintAvailable"
            ELSE LET result == Matcher_findElement(doc, fingerprints[last'.name],
                                                   config.confidenceThreshold).result
                 IN  IF result.element = NoElement
                        \/ RatLt(result.confidence, config.confidenceThreshold)
                     THEN "LowConfidenceHeal"
                     ELSE "DONE_HEALED"]_vars

\* C7: when the matcher reaches a strategy whose query yields exactly one
\* element it returns that element at once, with the strategy's static
\* confidence and kind: the strategies before it were queried in order, none
\* after it is queried, and no similarity score is computed for it.
C7_UniqueShortCircuit ==
    [][(MatchStep /\ last'.via = "unique") =>
        LET fp == fingerprints[last'.name]
            k == Len(MatcherQueries(last'))
        IN  /\ k \in 1..Len(fp.alternativeLocators)
            /\ MatcherQueries(last') = FirstValues(fp, k)
            /\ Len(MatchingElements(doc, fp.alternativeLocators[k].value)) = 1
            /\ last'.match =
                  [element |-> MatchingElements(doc, fp.alternativeLocators[k].value)[1],
                   locator |-> fp.alternativeLocators[k],
                   confidence |-> fp.alternativeLocators[k].confidence,
                   matchedBy |-> fp.alternativeLocators[k].type]
            /\ last'.scored = ScoredUpTo(doc, fp, k - 1)]_vars

\* C7 witness: a unique match was returned by a strategy that is not the
\* first, after an earlier strategy's multi-match had been scored and rejected
C7_Witness ==
    /\ last.via = "unique"
    /\ Len(MatcherQueries(last)) > 1
    /\ last.scored > 0

C9_LowConfidenceReportsBoth ==
    (last.via # "none" /\ RatLt(last.match.confidence, config.confidenceThreshold))
    => /\ last.outcome = "LowConfidenceHeal"
       /\ last.error.kind = "LowConfidenceHeal"
       /\ Abs(2 * last.match.confidence.den * last.error.confidence
              - 2000 * last.match.confidence.num) <= last.match.confidence.den
       /\ Abs(2 * config.confidenceThreshold.den * last.error.threshold
              - 2000 * config.confidenceThreshold.num)
            <= config.confidenceThreshold.den

\* C9 witness: with the threshold at 0.99, a unique match at 0.85 was rejected
C9_Witness ==
    /\ config.confidenceThreshold = Rat(99, 100)
    /\ last.outcome = "LowConfidenceHeal"
    /\ last.via = "unique"
    /\ last.match.confidence = Rat(85, 100)
    /\ last.error.confidence = 850
    /\ last.error.threshold = 990

\* C10: the matcher queries the alternative locators in stored order, which is
\* strictly ascending priority, and attributes its result to the earliest
\* strategy that yields a unique match or a multi-match whose best score
\* reaches the threshold (to the similarity scan when none does); so when the
\* fingerprint carries a data-testid that is unique in the document, the
\* result is that element via data-testid at confidence 0.95.
C10_PriorityOrder ==
    [][MatchStep =>
        LET fp == fingerprints[last'.name]
            alts == fp.alternativeLocators
            hits == {i \in 1..Len(alts) :
                        Accepts(doc, fp, config.confidenceThreshold, i)}
            testId == SelAttr("data-testid", fp.attributes.dataAttributes["data-testid"])
        IN  /\ \A i, j \in 1..Len(alts) : i < j => alts[i].priority < alts[j].priority
            /\ IF hits # {}
               THEN /\ MatcherQueries(last') = FirstValues(fp, SetMin(hits))
                    /\ last'.match.locator = alts[SetMin(hits)]
                    /\ last'.match.matchedBy = alts[SetMin(hits)].type
               ELSE /\ MatcherQueries(last')
                          = FirstValues(fp, Len(alts)) \o <<SelTag(fp.attributes.tagName)>>
                    /\ last'.match.locator = NoLocator
                    /\ last'.match.matchedBy = "similarity"
            /\ (/\ HasData(fp.attributes, "data-testid")
                /\ Len(MatchingElements(doc, testId)) = 1)
               => /\ last'.match.element = MatchingElements(doc, testId)[1]
                  /\ last'.match.matchedBy = "data-testid"
                  /\ last'.match.confidence = Rat(95, 100)
                  /\ Len(MatcherQueries(last')) = 1]_vars

\* C10 witness: a heal resolved through a data-testid that is unique in the
\* document, at confidence 0.95
C10_Witness ==
    /\ last.outcome = "DONE_HEALED"
    /\ last.match.matchedBy = "data-testid"
    /\ last.via = "unique"
    /\ last.match.confidence = Rat(95, 100)

----------------------------------------------------------------------------
(* Capture *)

\* the priority table: each strategy kind with its priority and confidence
PriorityTable ==
    <<Strategy("data-testid", NoSelector, 1, 95, 100),
      Strategy("data-cy", NoSelector, 2, 95, 100),
      Strategy("id", NoSelector, 3, 90, 100),
      Strategy("aria-label", NoSelector, 4, 85, 100),
      Strategy("name", NoSelector, 5, 80, 100),
      Strategy("placeholder", NoSelector, 6, 75, 100),
      Strategy("role", NoSelector, 7, 70, 100),
      Strategy("text", NoSelector, 8, 70, 100),
      Strategy("class", NoSelector, 9, 50, 100),
      Strategy("css", NoSelector, 10, 60, 100)>>

\* the precondition the priority table gives a strategy kind, on element e
\* (an attribute is present when it has a non-empty value)
Precondition(type, e) ==
    CASE type = "data-testid" -> getDataAttribute(e, "data-testid") \notin {Null, ""}
      [] type = "data-cy" -> getDataAttribute(e, "data-cy") \notin {Null, ""}
      [] type = "id" -> e.id # ""
      [] type = "aria-label" -> e.ariaLabel # ""
      [] type = "name" -> e.name # ""
      [] type = "placeholder" -> e.placeholder # ""
      [] type = "role" -> e.role # "" /\ e.text # <<>>
      [] type = "text" -> e.text # <<>> /\ Len(e.text) < 50
      [] type = "class" -> Len(e.className) = 1 /\ e.className[1] # ""
      [] type = "css" -> e.tagName # ""

\* a state in which the fingerprint of last.element is stored under last.name
Captured == last.op \in {"capture", "match"}

\* C11: every fingerprint capture produces has its alternative locators in
\* strictly ascending priority, and holds a strategy kind if and only if the
\* kind's precondition from the priority table held for the element, each
\* with the priority and confidence of the table.
C11_CaptureLocators ==
    Captured =>
        LET alts == fingerprints[last.name].alternativeLocators
        IN  /\ \A i, j \in 1..Len(alts) : i < j => alts[i].priority < alts[j].priority
            /\ \A k \in 1..Len(PriorityTable) :
                  /\ (\E i \in 1..Len(alts) : alts[i].type = PriorityTable[k].type)
                        <=> Precondition(PriorityTable[k].type, last.element)
                  /\ \A i \in 1..Len(alts) :
                        alts[i].type = PriorityTable[k].type
                        => /\ alts[i].priority = PriorityTable[k].priority
                           /\ alts[i].confidence = PriorityTable[k].confidence
            /\ \A i \in 1..Len(alts) :
                  \E k \in 1..Len(PriorityTable) : alts[i].type = PriorityTable[k].type

\* C11 witness: a capture of an element with a role, a text one character
\* under the limit and two class tokens, which got the role and text
\* strategies and no class strategy
C11_Witness ==
    /\ last.op = "capture"
    /\ last.element.role # ""
    /\ Len(last.element.text) = TextLocatorMax - 1
    /\ Len(last.element.className) = 2
    /\ \E i \in 1..Len(fingerprints[last.name].alternativeLocators) :
          fingerprints[last.name].alternativeLocators[i].type = "text"
    /\ \A i \in 1..Len(fingerprints[last.name].alternativeLocators) :
          fingerprints[last.name].alternativeLocators[i].type # "class"

\* an element with a tag name and a position and nothing else to identify it
OnlyTagAndPosition(e) ==
    /\ e.id = "" /\ e.className = <<>> /\ e.text = <<>> /\ e.name = ""
    /\ e.placeholder = "" /\ e.ariaLabel = "" /\ e.role = "" /\ e.type = ""
    /\ e.data = NoData /\ e.parent.id = "" /\ e.parent.className = <<>>

\* C12 as stated: the fingerprint of an element that has only a tag name and
\* a position has no alternative locator, so the matcher goes straight to the
\* similarity scan over the elements of that tag and answers with matchedBy
\* similarity.
C12_BareElementNoLocators ==
    (Captured /\ OnlyTagAndPosition(last.element)) =>
        /\ fingerprints[last.name].alternativeLocators = <<>>
        /\ last.op = "match"
           => /\ last.queries = <<SelTag(last.element.tagName)>>
              /\ last.match.matchedBy = "similarity"

\* C12 amended: the fingerprint of such an element has exactly one alternative
\* locator, the contextual css made of the bare tag name (priority 10,
\* confidence 0.6); the matcher queries it first and answers with matchedBy
\* css, at confidence 0.6 when the query yields one element, or at the best
\* score when it yields several and that score reaches the threshold; only
\* otherwise does it go on to the similarity scan and answer with matchedBy
\* similarity.
C12_BareElementAmended ==
    (Captured /\ OnlyTagAndPosition(last.element)) =>
        LET fp == fingerprints[last.name]
            css == SelCss("", "", last.element.tagName, "")
        IN  /\ fp.alternativeLocators = <<Strategy("css", css, 10, 60, 100)>>
            /\ last.op = "match"
               => IF Accepts(doc, fp, config.confidenceThreshold, 1)
                  THEN /\ last.queries = <<css>>
                       /\ last.match.matchedBy = "css"
                       /\ Len(MatchingElements(doc, css)) = 1
                          => last.match.confidence = Rat(60, 100)
                  ELSE /\ last.queries = <<css, SelTag(last.element.tagName)>>
                       /\ last.match.matchedBy = "similarity"

\* C12 witness: the matcher found such an element again through its
\* contextual css
C12_Witness ==
    /\ last.op = "match"
    /\ OnlyTagAndPosition(last.element)
    /\ last.match.matchedBy = "css"
    /\ last.match.element # NoElement

----------------------------------------------------------------------------
(* Matching *)

\* the number of strategies of fp the matcher went past without accepting,
\* given the record of the call
PassedOver(fp, done) ==
    IF done.via \in {"unique", "best"}
    THEN Len(MatcherQueries(done)) - 1
    ELSE Len(fp.alternativeLocators)

\* C13: when a strategy's query yields several elements the matcher scores
\* every one of them against the fingerprint's attributes and keeps the
\* highest scorer; if that score reaches the threshold it returns that
\* candidate, with the score as confidence and the strategy's kind as
\* matchedBy, and otherwise it goes on to the next strategy.
C13_MultiMatchDisambiguation ==
    [][MatchStep =>
        LET fp == fingerprints[last'.name]
            alts == fp.alternativeLocators
            k == Len(MatcherQueries(last'))
            threshold == config.confidenceThreshold
        IN  /\ \A i \in 1..PassedOver(fp, last') :
                  LET q == querySelectorAll(doc, alts[i].value)
                  IN  (~q.throws /\ Len(q.elements) > 1)
                      => \A j \in 1..Len(q.elements) :
                            RatLt(calculateSimilarityScore(q.elements[j], fp.attributes),
                                  threshold)
            /\ last'.via = "best"
               => LET found == MatchingElements(doc, alts[k].value)
                  IN  /\ Len(found) > 1
                      /\ \E j \in 1..Len(found) : found[j] = last'.match.element
                      /\ last'.match.confidence
                            = calculateSimilarityScore(last'.match.element, fp.attributes)
                      /\ \A j \in 1..Len(found) :
                            RatGe(last'.match.confidence,
                                  calculateSimilarityScore(found[j], fp.attributes))
                      /\ RatGe(last'.match.confidence, threshold)
                      /\ last'.match.matchedBy = alts[k].type
                      /\ last'.match.matchedBy # "similarity"
                      /\ last'.match.locator = alts[k]
                      /\ last'.scored = ScoredUpTo(doc, fp, k)
            /\ last'.scored >= ScoredUpTo(doc, fp, PassedOver(fp, last'))]_vars

\* C13 witness: two elements shared the locator that was queried and the
\* matcher returned the second of them, the one whose placeholder is the
\* fingerprint's
C13_Witness ==
    /\ last.op = "heal"
    /\ last.via = "best"
    /\ last.match.matchedBy = "data-testid"
    /\ Len(MatchingElements(doc, last.match.locator.value)) = 2
    /\ MatchingElements(doc, last.match.locator.value)[2] = last.match.element
    /\ last.match.element.placeholder
          = fingerprints[last.name].attributes.placeholder
    /\ MatchingElements(doc, last.match.locator.value)[1].placeholder
          # last.match.element.placeholder

\* C14: if no alternative locator yields an accepted result, the matcher
\* scans all elements with the fingerprint's tag name and returns the
\* highest-scoring one with matchedBy similarity and no locator; a heal
\* accepted on this path appends a healing event whose healed locator is the
\* similarity sentinel, and a healing event carries the sentinel only on this
\* path.
C14_SimilarityFallback ==
    [][MatchStep =>
        LET fp == fingerprints[last'.name]
            alts == fp.alternativeLocators
            tag == SelTag(fp.attributes.tagName)
            candidates == MatchingElements(doc, tag)
            fallback == \A i \in 1..Len(alts) :
                           ~Accepts(doc, fp, config.confidenceThreshold, i)
        IN  /\ fallback <=> last'.via = "similarity"
            /\ fallback
               => /\ MatcherQueries(last') = FirstValues(fp, Len(alts)) \o <<tag>>
                  /\ last'.match.matchedBy = "similarity"
                  /\ last'.match.locator = NoLocator
                  /\ \A j \in 1..Len(candidates) :
                        RatGe(last'.match.confidence,
                              calculateSimilarityScore(candidates[j], fp.attributes))
                  /\ IF last'.match.element = NoElement
                     THEN last'.match.confidence = Zero
                     ELSE /\ \E j \in 1..Len(candidates) :
                                candidates[j] = last'.match.element
                          /\ last'.match.confidence
                                = calculateSimilarityScore(last'.match.element,
                                                           fp.attributes)
            /\ last'.outcome = "DONE_HEALED"
               => /\ Len(healingEvents') = Len(healingEvents) + 1
                  /\ (healingEvents'[Len(healingEvents')].healedLocator = SimilarityBased)
                        <=> last'.via = "similarity"
                  /\ (healingEvents'[Len(healingEvents')].strategy = "similarity")
                        <=> last'.via = "similarity"]_vars

\* C14 witness: a heal was accepted on the similarity scan and its event, the
\* last of the log, carries the sentinel
C14_Witness ==
    /\ last.outcome = "DONE_HEALED"
    /\ last.via = "similarity"
    /\ last.match.locator = NoLocator
    /\ healingEvents # <<>>
    /\ healingEvents[Len(healingEvents)].healedLocator = SimilarityBased

\* the fingerprint fp without the alternative locators whose query throws
WithoutThrowing(fp) ==
    [fp EXCEPT !.alternativeLocators =
        SelectSeq(fp.alternativeLocators, LAMBDA l : ~SelectorThrows(l.value))]

\* C15: a candidate locator whose query throws is skipped and the next one is
\* tried: the matcher's result is what it would be had that query yielded no
\* element, and the exception does not reach the caller.
C15_ThrowingCandidateSkipped ==
    [][MatchStep =>
        LET fp == fingerprints[last'.name]
        IN  /\ last'.match
                  = Matcher_findElement(doc, WithoutThrowing(fp),
                                        config.confidenceThreshold).result
            /\ last'.error.kind \in {"none", "LowConfidenceHeal"}
            /\ \A i \in 1..Len(MatcherQueries(last')) :
                  (SelectorThrows(MatcherQueries(last')[i]) /\ last'.via # "no-tag")
                  => i < Len(MatcherQueries(last'))]_vars

\* C15 witness: a heal succeeded although one of the candidates the matcher
\* queried threw
C15_Witness ==
    /\ last.outcome = "DONE_HEALED"
    /\ \E i \in 1..Len(MatcherQueries(last)) :
          SelectorThrows(MatcherQueries(last)[i])

----------------------------------------------------------------------------
(* Effects on the store *)

\* C16: a heal ending in DONE_HEALED changes, in the fingerprint stored under
\* the name, the heal count and the last-seen time only, and leaves the
\* fingerprints stored under the other names as they were.
C16_HealedFrame ==
    [][(HealStep /\ last'.outcome = "DONE_HEALED") =>
        /\ hasFingerprint(fingerprints, last'.name)
        /\ fingerprints' =
              [fingerprints EXCEPT
                  ![last'.name].healCount = fingerprints'[last'.name].healCount,
                  ![last'.name].lastSeen = fingerprints'[last'.name].lastSeen]
        /\ fingerprints'[last'.name].lastSeen = clock']_vars

\* C16 witness: a heal succeeded with a locator other than the one the
\* fingerprint was captured under, while the other name had a fingerprint too
C16_Witness ==
    /\ last.outcome = "DONE_HEALED"
    /\ fingerprints[last.name].primaryLocator # last.locator
    /\ fingerprints[last.name].alternativeLocators # <<>>
    /\ \A n \in Names : hasFingerprint(fingerprints, n)

\* C17: a heal whose primary locator matches exactly one element returns that
\* element, stores under the name a freshly captured fingerprint whose primary
\* locator is the locator used, appends no healing event and does not
\* increment the heal count, whether healing is enabled or not.
C17_DirectResolution ==
    [][(HealStep /\ Len(querySelectorAll(doc, last'.locator).elements) = 1) =>
        LET e == querySelectorAll(doc, last'.locator).elements[1]
        IN  /\ last'.outcome = "DONE_DIRECT"
            /\ last'.element = e
            /\ fingerprints' =
                  [fingerprints EXCEPT ![last'.name] =
                      [name |-> last'.name,
                       primaryLocator |-> last'.locator,
                       alternativeLocators |->
                           generateAlternativeLocators(e, extractAttributes(e)),
                       attributes |-> extractAttributes(e),
                       lastSeen |-> clock',
                       healCount |-> 0]]
            /\ hasFingerprint(fingerprints, last'.name)
               => fingerprints'[last'.name].healCount
                     <= fingerprints[last'.name].healCount
            /\ healingEvents' = healingEvents]_vars

\* C17 witness: with healing disabled, a heal that was not the first command
\* resolved directly and left a fingerprint captured under its locator at
\* that time
C17_Witness ==
    /\ last.op = "heal"
    /\ last.outcome = "DONE_DIRECT"
    /\ ~config.enabled
    /\ clock > 1
    /\ fingerprints[last.name].primaryLocator = last.locator
    /\ fingerprints[last.name].lastSeen = clock

\* C18: a register that resolves an element stores under the name a freshly
\* captured fingerprint whose primary locator is the locator given, whatever
\* fingerprint, heal count or healing events the name had, and appends no
\* healing event.
C18_RegisterCaptures ==
    [][(clock' # clock /\ last'.op = "register" /\ cyGet(doc, last'.locator) # <<>>) =>
        /\ last'.outcome = "REGISTERED"
        /\ last'.element = cyGet(doc, last'.locator)[1]
        /\ fingerprints' =
              [fingerprints EXCEPT ![last'.name] =
                  [name |-> last'.name,
                   primaryLocator |-> last'.locator,
                   alternativeLocators |->
                       generateAlternativeLocators(last'.element,
                                                   extractAttributes(last'.element)),
                   attributes |-> extractAttributes(last'.element),
                   lastSeen |-> clock',
                   healCount |-> 0]]
        /\ healingEvents' = healingEvents]_vars

\* C18 witness: a register replaced the fingerprint of a name that had been
\* healed before
C18_Witness ==
    /\ last.op = "register"
    /\ last.outcome = "REGISTERED"
    /\ \E i \in 1..Len(healingEvents) : healingEvents[i].elementName = last.name
    /\ fingerprints[last.name].healCount = 0
    /\ fingerprints[last.name].lastSeen = clock

\* C19: after register(L, name) has resolved element e, heal(L, name) with
\* the same locator on the unchanged document succeeds and returns e, for
\* every locator registration accepts, those matching several elements and
\* those in jQuery-only syntax included.
C19_RegisterThenHeal ==
    [][(/\ HealStep
        /\ last.op = "register" /\ last.outcome = "REGISTERED"
        /\ last.page = doc
        /\ last'.locator = last.locator /\ last'.name = last.name)
       => /\ last'.outcome \in {"DONE_DIRECT", "DONE_HEALED"}
          /\ last'.element = last.element]_vars

\* C20: the healing-event log is append-only: a heal ending in DONE_HEALED
\* appends exactly one event (element name, failed primary locator, accepted
\* locator or sentinel, strategy kind, confidence, test file and test name)
\* and leaves the earlier events as they were, and every other step leaves
\* the log as it was.
C20_AppendOnlyLog ==
    [][IF HealStep /\ last'.outcome = "DONE_HEALED"
       THEN \E c \in Contexts :
               healingEvents' =
                  Append(healingEvents,
                         [timestamp |-> clock',
                          elementName |-> last'.name,
                          originalLocator |-> last'.locator,
                          healedLocator |-> IF last'.match.locator # NoLocator
                                            THEN last'.match.locator.value
                                            ELSE SimilarityBased,
                          strategy |-> last'.match.matchedBy,
                          confidence |-> last'.match.confidence,
                          testFile |-> c.testFile,
                          testName |-> c.testName])
       ELSE healingEvents' = healingEvents]_vars

\* C20 witness: the log holds two events, in the order of their heals
C20_Witness ==
    /\ Len(healingEvents) = 2
    /\ healingEvents[1].timestamp < healingEvents[2].timestamp
    /\ last.outcome = "DONE_HEALED"

----------------------------------------------------------------------------
(* The store *)

\* a save, a recordHealingEvent, a clearHealingEvents, an export or an import
\* has just been made
StoreStep(op) == clock' # clock /\ last'.op = op

\* C21: the store is last-write-wins by name: after a save, get(name) is the
\* fingerprint just saved, whatever the name held before; has(name) is true
\* exactly when get(name) is present; and the save leaves what every other
\* name holds as it was.
C21_LastWriteWins ==
    [][StoreStep("save") =>
          /\ getFingerprint(fingerprints', last'.name) = last'.value
          /\ \A n \in Names :
                hasFingerprint(fingerprints', n)
                    <=> getFingerprint(fingerprints', n) # NoFingerprint
          /\ \A n \in Names \ {last'.name} :
                getFingerprint(fingerprints', n) = getFingerprint(fingerprints, n)]_vars

\* C21 witness: a save made after two other calls, the other name holding a
\* fingerprint a registration captured
C21_Witness ==
    /\ last.op = "save"
    /\ clock = 3
    /\ getFingerprint(fingerprints, last.name) = last.value
    /\ \E n \in Names \ {last.name} :
          /\ hasFingerprint(fingerprints, n)
          /\ fingerprints[n].lastSeen > 0

\* C22: no call removes a name from the store: a name that holds a
\* fingerprint holds one after every save, recordHealingEvent,
\* clearHealingEvents, export, import, registration and heal, whatever the
\* heal's outcome.
C22_NamesNeverRemoved ==
    [][\A n \in Names :
          hasFingerprint(fingerprints, n) => hasFingerprint(fingerprints', n)]_vars

\* C22 witness: a name the imported snapshot does not hold is still stored
\* after the import
C22_Witness ==
    /\ last.op = "import"
    /\ last.value.fingerprints # <<>>
    /\ \E n \in Names :
          /\ hasFingerprint(fingerprints, n)
          /\ \A i \in 1..Len(last.value.fingerprints) :
                last.value.fingerprints[i].name # n

\* the store of a new LocatorStore
EmptyStore == [n \in Names |-> NoFingerprint]

\* the last fingerprint of the list under the name
LastOf(list, n) ==
    list[CHOOSE i \in 1..Len(list) :
            /\ list[i].name = n
            /\ \A j \in (i + 1)..Len(list) : list[j].name # n]

\* C27: every snapshot export may return, imported into an empty store,
\* gives the store it was exported from: the same fingerprint under every
\* name and the same events in the same order.  An import into any store
\* leaves under each name the snapshot's last fingerprint of that name, or
\* what the name held when the snapshot has none, and makes the snapshot's
\* events the log.
C27_ExportImport ==
    /\ [](\A data \in export(fingerprints, healingEvents) :
            import(EmptyStore, <<>>, data) =
               [fingerprints |-> fingerprints, healingEvents |-> healingEvents])
    /\ [][StoreStep("import") =>
            /\ \A n \in Names :
                  fingerprints'[n] =
                     IF \E i \in 1..Len(last'.value.fingerprints) :
                           last'.value.fingerprints[i].name = n
                     THEN LastOf(last'.value.fingerprints, n)
                     ELSE fingerprints[n]
            /\ healingEvents' = last'.value.healingEvents]_vars

\* C27 witness: an import of two fingerprints of one name into a store whose
\* other name holds a fingerprint healed before; the log is the snapshot's
\* empty one
C27_Witness ==
    /\ last.op = "import"
    /\ Len(last.value.fingerprints) = 2
    /\ fingerprints["loginButton"] = last.value.fingerprints[2]
    /\ hasFingerprint(fingerprints, "usernameInput")
    /\ fingerprints["usernameInput"].healCount > 0
    /\ healingEvents = <<>>

----------------------------------------------------------------------------
(* String similarity and scoring *)

RECURSIVE EditDistance(_, _)
\* the edit distance by its recursive definition: the fewest insertions,
\* deletions and substitutions of one character that turn a into b
EditDistance(a, b) ==
    IF a = <<>> THEN Len(b)
    ELSE IF b = <<>> THEN Len(a)
    ELSE IF Head(a) = Head(b) THEN EditDistance(Tail(a), Tail(b))
    ELSE 1 + Min2(EditDistance(Tail(a), Tail(b)),
                  Min2(EditDistance(Tail(a), b), EditDistance(a, Tail(b))))

\* C23: stringSimilarity(a, a) = 1, the empty string included;
\* stringSimilarity(a, "") = stringSimilarity("", a) = 0 for a non-empty a;
\* and for non-empty a # b the value lies in [0, 1] and is
\* 1 - EditDistance(a, b) / max(|a|, |b|).
C23_StringSimilarity ==
    last.op = "stringSimilarity" =>
        LET a == last.str1
            b == last.str2
            longest == IF Len(a) > Len(b) THEN Len(a) ELSE Len(b)
        IN  IF a = b THEN last.value = One
            ELSE IF a = <<>> \/ b = <<>> THEN last.value = Zero
            ELSE /\ RatGe(last.value, Zero)
                 /\ RatGe(One, last.value)
                 /\ last.value = Rat(longest - EditDistance(a, b), longest)

\* C23 witness: two strings of three characters two edits apart, compared
\* at 1/3
C23_Witness ==
    /\ last.op = "stringSimilarity"
    /\ last.str1 = <<"a", "b", "a">>
    /\ last.str2 = <<"b", "a", "a">>
    /\ last.value = Rat(1, 3)

\* the weights as the specification lists them, in hundredths
ListedWeight(signal) ==
    CASE signal = "text" -> 25
      [] signal = "ariaLabel" -> 20
      [] signal = "dataAttributes" -> 15
      [] signal = "placeholder" -> 10
      [] signal = "name" -> 10
      [] signal = "className" -> 5
      [] signal = "position" -> 10
      [] signal = "role" -> 5

\* the signals the target holds a value for
Held(target) ==
    {signal \in SeqToSet(Signals) :
        CASE signal = "text" -> target.text # <<>>
          [] signal = "ariaLabel" -> target.ariaLabel # ""
          [] signal = "dataAttributes" -> target.dataAttributes # NoData
          [] signal = "placeholder" -> target.placeholder # ""
          [] signal = "name" -> target.name # ""
          [] signal = "className" -> target.className # <<>>
          [] signal = "position" -> target.position # NoPosition
          [] signal = "role" -> target.role # ""}

RECURSIVE SumOver(_, _, _)
\* the sum over the signals of the set of the listed weight, each multiplied
\* by the signal's score of the element when an element is given
SumOver(signals, element, target) ==
    IF signals = {} THEN Zero
    ELSE LET signal == CHOOSE x \in signals : TRUE
             term == IF element = NoElement THEN Rat(ListedWeight(signal), 100)
                     ELSE RatMul(SignalScore(signal, element, target),
                                 Rat(ListedWeight(signal), 100))
         IN  RatAdd(term, SumOver(signals \ {signal}, element, target))

\* C24: the similarity score of a candidate is the sum, over the signals the
\* target holds, of the signal's score times its listed weight (text 0.25,
\* aria-label 0.20, data-* 0.15, placeholder 0.10, name 0.10, class 0.05,
\* position 0.10, role 0.05), divided by the sum of the listed weights of
\* those signals, a divisor that depends on the target only; it lies in
\* [0, 1]; and it is 0 when the target holds no signal.
C24_WeightedScore ==
    last.op \in {"score", "improve"} =>
        /\ RatGe(last.value, Zero)
        /\ RatGe(One, last.value)
        /\ IF Held(last.target) = {} THEN last.value = Zero
           ELSE last.value =
                   RatDiv(SumOver(Held(last.target), last.element, last.target),
                          SumOver(Held(last.target), NoElement, last.target))

\* C24 witness: a target holding its text and class only, scored against
\* the candidate with half of each: (0.25 * 1/2 + 0.05 * 1/2) / 0.30 = 1/2
C24_Witness ==
    /\ last.op = "score"
    /\ Held(last.target) = {"text", "className"}
    /\ last.element.text = <<"a">>
    /\ last.value = Rat(1, 2)

\* C25: for a fixed target, a candidate changed so that one more signal the
\* target holds matches exactly scores no less than it did.
C25_Monotone ==
    [][last'.op = "improve" /\ clock' # clock =>
          /\ last'.target = last.target
          /\ last'.signal \in Held(last.target)
          /\ SignalScore(last'.signal, last'.element, last.target) = One
          /\ RatGe(last'.value, last.value)]_vars

\* C25 witness: a candidate given the target's position while the target
\* holds other signals too; its score lies strictly between 1/2 and 1
C25_Witness ==
    /\ last.op = "improve"
    /\ last.signal = "position"
    /\ Cardinality(Held(last.target)) > 1
    /\ RatGt(last.value, Rat(1, 2))
    /\ RatLt(last.value, One)

----------------------------------------------------------------------------
(* Termination of a heal *)

\* C26: a heal makes one pass: after the primary query the matcher queries
\* the alternative locators in stored order, each at most once, and then at
\* most once the elements of the target's tag, so it makes at most n + 1
\* queries for n alternative locators; the heal is not tried again.
C26_SinglePass ==
    [][MatchStep =>
        LET fp == fingerprints[last'.name]
            n == Len(fp.alternativeLocators)
            pass == FirstValues(fp, n) \o <<SelTag(fp.attributes.tagName)>>
            asked == MatcherQueries(last')
        IN  /\ Head(last'.queries) = last'.locator
            /\ Len(asked) <= n + 1
            /\ asked = SubSeq(pass, 1, Len(asked))
            /\ clock' = clock + 1]_vars

\* C26 witness: a heal whose matcher went through all of three or more
\* alternative locators and then the similarity scan
C26_Witness ==
    /\ last.op = "heal"
    /\ last.via = "similarity"
    /\ hasFingerprint(fingerprints, last.name)
    /\ Len(fingerprints[last.name].alternativeLocators) >= 3
    /\ Len(MatcherQueries(last))
          = Len(fingerprints[last.name].alternativeLocators) + 1

----------------------------------------------------------------------------
(* Selection among candidates and among strategies *)

\* C28 as stated: when some alternative locator of the fingerprint yields
\* exactly one element of the page and its static confidence is at least the
\* threshold, the heal succeeds, whatever the strategies before it match.
C28_SufficientStrategyHeals ==
    [][(/\ HealStep
        /\ last'.via # "none"
        /\ \E i \in 1..Len(fingerprints[last'.name].alternativeLocators) :
              LET locator == fingerprints[last'.name].alternativeLocators[i]
                  q == querySelectorAll(doc', locator.value)
              IN  /\ ~q.throws
                  /\ Len(q.elements) = 1
                  /\ RatGe(locator.confidence, config.confidenceThreshold))
       => last'.outcome = "DONE_HEALED"]_vars

\* the scores of the candidates, in document order
ScoresOf(elements, target) ==
    [i \in 1..Len(elements) |-> calculateSimilarityScore(elements[i], target)]

\* C29: findBestMatch answers with the first candidate, in document order,
\* whose score is the highest of all, and that score, when the highest score
\* is above 0; it answers with no element and confidence 0 when every
\* candidate scores 0 or there is no candidate.
C29_FirstMaximum ==
    last.op = "findBestMatch" =>
        LET scores == ScoresOf(last.elements, last.target)
        IN  IF \A i \in 1..Len(scores) : scores[i] = Zero
            THEN last.value = [element |-> NoElement, confidence |-> Zero]
            ELSE \E i \in 1..Len(scores) :
                    /\ \A j \in 1..Len(scores) : RatGe(scores[i], scores[j])
                    /\ \A j \in 1..(i - 1) : RatLt(scores[j], scores[i])
                    /\ last.value = [element |-> last.elements[i],
                                     confidence |-> scores[i]]

\* C29 witness: two candidates with the same score above 0, the first of
\* them the answer
C29_Witness ==
    /\ last.op = "findBestMatch"
    /\ Len(last.elements) = 2
    /\ ScoresOf(last.elements, last.target)[1] = ScoresOf(last.elements, last.target)[2]
    /\ RatGt(ScoresOf(last.elements, last.target)[1], Zero)
    /\ last.value.element = last.elements[1]

====
